---- MODULE Spec2Model ----
(***************************************************************************)
(* Model of src/pathfinding/astar/assist.py: the reference oracle          *)
(* find_optimal_cost, the engines astar_correct and astar_buggy, the path  *)
(* validator is_valid_path, the binary heap (heapq) the searches run on,   *)
(* the proof harness AStarProof and the __main__ script that drives it.    *)
(***************************************************************************)
EXTENDS Integers, Sequences, FiniteSets, TLC

\* ------------------------------------------------------------------ bounds
MaxRows == 2
MaxCols == 3
MaxCells == 6
MaxCost == 4
MaxPathLen == 3
OobMargin == 1
UnitSide == 5
\* the largest side of a generated grid, the largest num_tests passed, the
\* number of tests run_inductive_step() runs by default, the number of
\* method calls a caller makes on one proof
MaxSide == 2
MaxTests == 2
DefaultTests == 2
MaxCalls == 2
\* the largest number of cells of a grid on which termination is checked
LiveCells == 4
\* the largest amount by which the cost of a cell is raised
MaxRaise == 2

\* ------------------------------------------------------- program constants
\* float('inf'): larger than every sum of costs the bounded grids allow
Inf == 1000000
\* the impassable sentinel, grid[nx][ny] != -1
Wall == 0 - 1

VARIABLES grid, start, end, ostatus, queue, visited, ocost,
          astatus, open_set, closed_set, aresult, vpath, vresult,
          \* the engine called, the number of the call and the first result
          algorithm, run, first,
          \* one AStarProof: its log, the position inside its methods, the
          \* loop of run_inductive_step and the values its methods returned
          log, hpc, num_tests, trial, base_ret, ind_ret, got, sizes,
          \* the caller: its position, the calls made, what it printed
          mpc, calls, stdout, done_logs,
          \* history: oracle and engine calls of the current
          \* run_inductive_step, the properties checked in its last trial,
          \* the length of the log when it was called, whether some
          \* run_base_case returned True, the trials of the current
          \* run_inductive_step whose result was absent or broke a property
          ocalls, ecalls, evaluated, log0, base_passed, bad,
          \* the pushes and pops the engine made on its open set since it
          \* was called, in order
          history

\* the variables of the proof object and its caller
hvars == <<log, hpc, num_tests, trial, base_ret, ind_ret, got, sizes,
           mpc, calls, stdout, done_logs, ocalls, evaluated, log0,
           base_passed, bad>>

vars == <<grid, start, end, ostatus, queue, visited, ocost,
          astatus, open_set, closed_set, aresult, vpath, vresult,
          algorithm, run, first, ecalls, hvars, history>>

\* --------------------------------------------------------------- the grid
Rows(g) == Cardinality(DOMAIN g)
Cols(g) == Cardinality(DOMAIN g[0])

\* 0 <= nx < rows and 0 <= ny < cols
InBounds(g, x, y) == 0 <= x /\ x < Rows(g) /\ 0 <= y /\ y < Cols(g)

\* Python list indexing: g[i][j] accepts -len <= i < len, negative wraps
IndexOK(g, x, y) ==
    /\ 0 - Rows(g) <= x /\ x < Rows(g)
    /\ 0 - Cols(g) <= y /\ y < Cols(g)

GridAt(g, x, y) ==
    g[IF x < 0 THEN x + Rows(g) ELSE x][IF y < 0 THEN y + Cols(g) ELSE y]

\* a slip: the move (-1, 0) left out of the list
possible_moves_without_up == << <<0, 1>>, <<0, 0 - 1>>, <<1, 0>> >>

\* get_neighbors: possible_moves = [(0, 1), (0, -1), (1, 0), (-1, 0)]
possible_moves == << <<0, 1>>, <<0, 0 - 1>>, <<1, 0>>, <<0 - 1, 0>> >>

\* find_optimal_cost: for dx, dy in [(0, 1), (0, -1), (1, 0), (-1, 0)]
oracle_moves == << <<0, 1>>, <<0, 0 - 1>>, <<1, 0>>, <<0 - 1, 0>> >>

Abs(n) == IF n < 0 THEN 0 - n ELSE n

\* ------------------------------------------------------------------- Node
\* parent is <<>> for None, <<n>> for a reference to node n (nodes are never
\* changed once pushed, so the referenced object is its value)
Node(x, y, cost) ==
    [x |-> x, y |-> y, cost |-> cost, g |-> Inf, h |-> 0, f |-> Inf,
     parent |-> <<>>]

\* a slip: ties between nodes broken by something that differs from one
\* call to the next (here: the number of the call)
Lt_call_dependent(a, b) ==
    IF "f" \in DOMAIN a
    THEN IF run = 2 THEN a.f <= b.f ELSE a.f < b.f
    ELSE \/ a.cost < b.cost
         \/ a.cost = b.cost /\ a.pos[1] < b.pos[1]
         \/ a.cost = b.cost /\ a.pos[1] = b.pos[1] /\ a.pos[2] < b.pos[2]

\* Node.__lt__ compares f alone; the oracle's (cost, (x, y)) tuples compare
\* lexicographically
Lt(a, b) ==
    IF "f" \in DOMAIN a
    THEN a.f < b.f
    ELSE \/ a.cost < b.cost
         \/ a.cost = b.cost /\ a.pos[1] < b.pos[1]
         \/ a.cost = b.cost /\ a.pos[1] = b.pos[1] /\ a.pos[2] < b.pos[2]

\* ------------------------------------------------------------------ heapq
\* positions are 0-based as in heapq; heap[p + 1] is Python's heap[p]
RECURSIVE siftdown(_, _, _, _)
siftdown(heap, startpos, pos, newitem) ==
    IF pos > startpos
    THEN LET parentpos == (pos - 1) \div 2
             parent == heap[parentpos + 1]
         IN  IF Lt(newitem, parent)
             THEN siftdown([heap EXCEPT ![pos + 1] = parent],
                           startpos, parentpos, newitem)
             ELSE [heap EXCEPT ![pos + 1] = newitem]
    ELSE [heap EXCEPT ![pos + 1] = newitem]

RECURSIVE siftup(_, _, _, _)
siftup(heap, startpos, pos, newitem) ==
    LET endpos == Len(heap)
        childpos == 2 * pos + 1
        rightpos == childpos + 1
    IN  IF childpos < endpos
        THEN LET c == IF rightpos < endpos
                         /\ ~Lt(heap[childpos + 1], heap[rightpos + 1])
                      THEN rightpos ELSE childpos
             IN  siftup([heap EXCEPT ![pos + 1] = heap[c + 1]],
                        startpos, c, newitem)
        ELSE siftdown([heap EXCEPT ![pos + 1] = newitem],
                      startpos, pos, newitem)

heappush(heap, item) == siftdown(Append(heap, item), 0, Len(heap), item)

\* heappop returns heap[0]; what it leaves behind:
heappop_item(heap) == heap[1]

\* a slip: the popped item left in the heap
heappop_rest_keeps(heap) == heap

heappop_rest(heap) ==
    LET lastelt == heap[Len(heap)]
        rest == SubSeq(heap, 1, Len(heap) - 1)
    IN  IF rest = <<>> THEN rest ELSE siftup(rest, 0, 0, lastelt)

\* ---------------------------------------------------------- get_neighbors
RECURSIVE get_neighbors_from(_, _, _)
get_neighbors_from(g, node, i) ==
    IF i > Len(possible_moves) THEN <<>>
    ELSE LET nx == node.x + possible_moves[i][1]
             ny == node.y + possible_moves[i][2]
             tail == get_neighbors_from(g, node, i + 1)
         IN  IF InBounds(g, nx, ny) /\ g[nx][ny] # Wall
             THEN <<Node(nx, ny, g[nx][ny])>> \o tail
             ELSE tail

get_neighbors(g, node) == get_neighbors_from(g, node, 1)

\* --------------------------------------------------------------- get_path
RECURSIVE path_walk(_)
path_walk(node) ==
    <<<<node.x, node.y>>>> \o
        (IF node.parent = <<>> THEN <<>> ELSE path_walk(node.parent[1]))

\* a slip: the path left in the order of the walk, goal first
Reverse_omitted(s) == s

\* path[::-1]
Reverse(s) == [i \in 1..Len(s) |-> s[Len(s) + 1 - i]]

\* a slip: the goal put in front of the reversed walk as well
get_path_goal_first(node) ==
    <<<<node.x, node.y>>>> \o Reverse(path_walk(node))

get_path(node) == Reverse(path_walk(node))

\* ------------------------------------------------------ find_optimal_cost
VisitedGet(vis, k) == IF k \in DOMAIN vis THEN vis[k] ELSE Inf

VisitedPut(vis, k, c) ==
    [j \in DOMAIN vis \cup {k} |-> IF j = k THEN c ELSE vis[j]]

\* a slip: steps counted instead of entry costs
oracle_new_cost_steps(cost, cell) == cost + 1

\* new_cost = cost + grid[nx][ny]
oracle_new_cost(cost, cell) == cost + cell

\* if new_cost < visited.get((nx, ny), float('inf'))
oracle_improves(new_cost, known) == new_cost < known

\* the for loop over the four moves of one popped entry
RECURSIVE oracle_expand(_, _, _, _, _)
oracle_expand(g, item, i, vis, q) ==
    IF i > Len(oracle_moves) THEN [visited |-> vis, queue |-> q]
    ELSE LET nx == item.pos[1] + oracle_moves[i][1]
             ny == item.pos[2] + oracle_moves[i][2]
         IN  IF InBounds(g, nx, ny) /\ g[nx][ny] # Wall
             THEN LET new_cost == oracle_new_cost(item.cost, g[nx][ny])
                  IN  IF oracle_improves(new_cost, VisitedGet(vis, <<nx, ny>>))
                      THEN oracle_expand(g, item, i + 1,
                               VisitedPut(vis, <<nx, ny>>, new_cost),
                               heappush(q, [cost |-> new_cost,
                                            pos |-> <<nx, ny>>]))
                      ELSE oracle_expand(g, item, i + 1, vis, q)
             ELSE oracle_expand(g, item, i + 1, vis, q)

\* queue = [(0, start)]; visited = {start: 0}
OracleQueue0(s) == <<[cost |-> 0, pos |-> s]>>
OracleVisited0(s) == [k \in {s} |-> 0]

\* one iteration of `while queue`, or the return after the loop
OracleStep ==
    /\ ostatus = "running"
    /\ IF queue = <<>>
       THEN /\ ostatus' = "returned"
            /\ ocost' = Inf
            /\ UNCHANGED <<queue, visited>>
       ELSE LET item == heappop_item(queue)
                rest == heappop_rest(queue)
            IN  IF item.pos = end
                THEN /\ ostatus' = "returned"
                     /\ ocost' = item.cost
                     /\ queue' = rest
                     /\ UNCHANGED visited
                ELSE LET r == oracle_expand(grid, item, 1, visited, rest)
                     IN  /\ queue' = r.queue
                         /\ visited' = r.visited
                         /\ UNCHANGED <<ostatus, ocost>>
    /\ UNCHANGED <<grid, start, end, astatus, open_set, closed_set, aresult,
                   vpath, vresult, algorithm, run, first, ecalls, hvars, history>>

\* ---------------------------------------------------------- astar_correct
heuristic(x, y, e) == Abs(x - e[1]) + Abs(y - e[2])

\* the slip of astar_buggy: the open set ordered by h alone
f_score_h_only(g, h) == h

\* neighbor.f = neighbor.g + neighbor.h
f_score(g, h) == g + h

\* a slip: the start cell's own cost counted in g
start_g_counts_start == GridAt(grid, start[1], start[2])

\* start_node.g, start_node.f = 0, 0
start_g == 0

\* a slip: every step counted as cost 1
tentative_g_steps(current_g, neighbor_cost) == current_g + 1

\* new_g = current_node.g + neighbor.cost
tentative_g(current_g, neighbor_cost) == current_g + neighbor_cost

\* if new_g < neighbor.g
astar_improves(new_g, neighbor_g) == new_g < neighbor_g

\* if (neighbor.x, neighbor.y) in closed_set
is_closed(neighbor, closed) == <<neighbor.x, neighbor.y>> \in closed

\* one entry of the history of the open set
Event(op, node) ==
    [op |-> op, x |-> node.x, y |-> node.y, g |-> node.g, f |-> node.f]

\* the nodes the for loop below pushes, in order
RECURSIVE astar_pushes(_, _, _, _, _)
astar_pushes(nbrs, i, current_node, e, closed) ==
    IF i > Len(nbrs) THEN <<>>
    ELSE LET neighbor == nbrs[i]
             new_g == tentative_g(current_node.g, neighbor.cost)
             h == heuristic(neighbor.x, neighbor.y, e)
         IN  (IF ~is_closed(neighbor, closed)
                 /\ astar_improves(new_g, neighbor.g)
              THEN <<Event("push", [neighbor EXCEPT
                                       !.g = new_g,
                                       !.f = f_score(new_g, h)])>>
              ELSE <<>>)
             \o astar_pushes(nbrs, i + 1, current_node, e, closed)

\* the for loop over get_neighbors(grid, current_node)
RECURSIVE astar_expand(_, _, _, _, _, _)
astar_expand(nbrs, i, current_node, e, closed, open) ==
    IF i > Len(nbrs) THEN open
    ELSE LET neighbor == nbrs[i]
         IN  IF is_closed(neighbor, closed)
             THEN astar_expand(nbrs, i + 1, current_node, e, closed, open)
             ELSE LET new_g == tentative_g(current_node.g, neighbor.cost)
                  IN  IF astar_improves(new_g, neighbor.g)
                      THEN LET h == heuristic(neighbor.x, neighbor.y, e)
                               pushed == [neighbor EXCEPT
                                             !.g = new_g,
                                             !.h = h,
                                             !.f = f_score(new_g, h),
                                             !.parent = <<current_node>>]
                           IN  astar_expand(nbrs, i + 1, current_node, e,
                                            closed, heappush(open, pushed))
                      ELSE astar_expand(nbrs, i + 1, current_node, e,
                                        closed, open)

\* a slip: cost 0 reported with the absent path
no_path_result_zero == [present |-> FALSE, path |-> <<>>, cost |-> 0]

\* return None, float('inf')
no_path_result == [present |-> FALSE, path |-> <<>>, cost |-> Inf]

\* the engine has not returned yet
NoResult == [present |-> FALSE, path |-> <<>>, cost |-> 0]

\* the engine is called after the oracle returned (lines 206-209), or by
\* run_base_case, which calls no oracle (line 186)
EngineCalled == astatus = "idle" /\ (ostatus = "returned" \/ hpc = "base")

\* lines 110-115: the start node is read from the grid, then the sets are made
AstarInit ==
    /\ algorithm = "astar_correct"
    /\ EngineCalled
    /\ IF IndexOK(grid, start[1], start[2])
       THEN /\ astatus' = "running"
            /\ open_set' = <<[Node(start[1], start[2],
                                   GridAt(grid, start[1], start[2]))
                              EXCEPT !.g = start_g, !.f = 0]>>
            /\ closed_set' = {}
            /\ history' = <<Event("push", open_set'[1])>>
       ELSE /\ astatus' = "IndexError"
            /\ history' = <<>>
            /\ UNCHANGED <<open_set, closed_set>>
    /\ ecalls' = ecalls + 1
    /\ UNCHANGED <<grid, start, end, ostatus, queue, visited, ocost, aresult,
                   vpath, vresult, algorithm, run, first, hvars>>

\* a slip: the popped cell marked as closed in the grid itself
AstarStep_marks_grid ==
    /\ algorithm = "astar_correct"
    /\ astatus = "running"
    /\ open_set # <<>>
    /\ LET current_node == heappop_item(open_set)
       IN  /\ grid' = [grid EXCEPT ![current_node.x][current_node.y] = Wall]
           /\ open_set' = astar_expand(get_neighbors(grid, current_node), 1,
                                       current_node, end, closed_set,
                                       heappop_rest(open_set))
    /\ UNCHANGED <<start, end, ostatus, queue, visited, ocost, astatus,
                   closed_set, aresult, vpath, vresult, algorithm, run,
                   first, ecalls, hvars, history>>

\* one iteration of `while open_set`, or the return after the loop
AstarStep ==
    /\ algorithm = "astar_correct"
    /\ astatus = "running"
    /\ IF open_set = <<>>
       THEN /\ astatus' = "returned"
            /\ aresult' = no_path_result
            /\ UNCHANGED <<open_set, closed_set, history>>
       ELSE LET current_node == heappop_item(open_set)
                rest == heappop_rest(open_set)
            IN  IF <<current_node.x, current_node.y>> = end
                THEN /\ astatus' = "returned"
                     /\ aresult' = [present |-> TRUE,
                                    path |-> get_path(current_node),
                                    cost |-> current_node.g]
                     /\ open_set' = rest
                     /\ history' = Append(history,
                                          Event("pop", current_node))
                     /\ UNCHANGED closed_set
                ELSE LET closed == closed_set \cup
                                     {<<current_node.x, current_node.y>>}
                     IN  /\ closed_set' = closed
                         /\ open_set' = astar_expand(
                                get_neighbors(grid, current_node), 1,
                                current_node, end, closed, rest)
                         /\ history' = Append(history,
                                              Event("pop", current_node))
                                \o astar_pushes(
                                       get_neighbors(grid, current_node), 1,
                                       current_node, end, closed)
                         /\ UNCHANGED <<astatus, aresult>>
    /\ UNCHANGED <<grid, start, end, ostatus, queue, visited, ocost,
                   vpath, vresult, algorithm, run, first, ecalls, hvars>>

\* astar_correct called once more with the same grid, start and end, after
\* its first call returned
AstarAgain ==
    /\ algorithm = "astar_correct"
    /\ hpc = "off"
    /\ run = 1
    /\ astatus = "returned"
    /\ run' = 2
    /\ first' = aresult
    /\ astatus' = "idle"
    /\ aresult' = NoResult
    /\ open_set' = <<>>
    /\ closed_set' = {}
    /\ history' = <<>>
    /\ UNCHANGED <<grid, start, end, ostatus, queue, visited, ocost,
                   vpath, vresult, algorithm, ecalls, hvars>>

\* ------------------------------------------------------------ astar_buggy
\* what astar_buggy would do if it kept astar_correct's assignment of g
buggy_g_assigned(current_g, neighbor) == current_g + neighbor.cost

\* astar_buggy never assigns neighbor.g: the node keeps Node's float('inf')
buggy_g(current_g, neighbor) == neighbor.g

\* the nodes the for loop below pushes, in order
RECURSIVE buggy_pushes(_, _, _, _, _)
buggy_pushes(nbrs, i, current_node, e, closed) ==
    IF i > Len(nbrs) THEN <<>>
    ELSE LET neighbor == nbrs[i]
             h == heuristic(neighbor.x, neighbor.y, e)
         IN  (IF ~is_closed(neighbor, closed)
              THEN <<Event("push", [neighbor EXCEPT
                                       !.g = buggy_g(current_node.g, neighbor),
                                       !.f = h])>>
              ELSE <<>>)
             \o buggy_pushes(nbrs, i + 1, current_node, e, closed)

\* the for loop of astar_buggy over get_neighbors(grid, current_node)
RECURSIVE buggy_expand(_, _, _, _, _, _)
buggy_expand(nbrs, i, current_node, e, closed, open) ==
    IF i > Len(nbrs) THEN open
    ELSE LET neighbor == nbrs[i]
         IN  IF is_closed(neighbor, closed)
             THEN buggy_expand(nbrs, i + 1, current_node, e, closed, open)
             ELSE LET h == heuristic(neighbor.x, neighbor.y, e)
                      pushed == [neighbor EXCEPT
                                    !.g = buggy_g(current_node.g, neighbor),
                                    !.h = h,
                                    !.f = h,
                                    !.parent = <<current_node>>]
                  IN  buggy_expand(nbrs, i + 1, current_node, e, closed,
                                   heappush(open, pushed))

\* lines 141-146
BuggyInit ==
    /\ algorithm = "astar_buggy"
    /\ EngineCalled
    /\ IF IndexOK(grid, start[1], start[2])
       THEN /\ astatus' = "running"
            /\ open_set' = <<[Node(start[1], start[2],
                                   GridAt(grid, start[1], start[2]))
                              EXCEPT !.g = 0, !.f = 0]>>
            /\ closed_set' = {}
            /\ history' = <<Event("push", open_set'[1])>>
       ELSE /\ astatus' = "IndexError"
            /\ history' = <<>>
            /\ UNCHANGED <<open_set, closed_set>>
    /\ ecalls' = ecalls + 1
    /\ UNCHANGED <<grid, start, end, ostatus, queue, visited, ocost, aresult,
                   vpath, vresult, algorithm, run, first, hvars>>

\* one iteration of astar_buggy's `while open_set`, or the return after it
BuggyStep ==
    /\ algorithm = "astar_buggy"
    /\ astatus = "running"
    /\ IF open_set = <<>>
       THEN /\ astatus' = "returned"
            /\ aresult' = no_path_result
            /\ UNCHANGED <<open_set, closed_set, history>>
       ELSE LET current_node == heappop_item(open_set)
                rest == heappop_rest(open_set)
            IN  IF <<current_node.x, current_node.y>> = end
                THEN /\ astatus' = "returned"
                     /\ aresult' = [present |-> TRUE,
                                    path |-> get_path(current_node),
                                    cost |-> current_node.g]
                     /\ open_set' = rest
                     /\ history' = Append(history,
                                          Event("pop", current_node))
                     /\ UNCHANGED closed_set
                ELSE LET closed == closed_set \cup
                                     {<<current_node.x, current_node.y>>}
                     IN  /\ closed_set' = closed
                         /\ open_set' = buggy_expand(
                                get_neighbors(grid, current_node), 1,
                                current_node, end, closed, rest)
                         /\ history' = Append(history,
                                              Event("pop", current_node))
                                \o buggy_pushes(
                                       get_neighbors(grid, current_node), 1,
                                       current_node, end, closed)
                         /\ UNCHANGED <<astatus, aresult>>
    /\ UNCHANGED <<grid, start, end, ostatus, queue, visited, ocost,
                   vpath, vresult, algorithm, run, first, ecalls, hvars>>

\* ----------------------------------------- an engine other than these two
\* AStarProof takes any callable as algorithm_to_prove. What such an engine
\* may return for (grid, start, end): no path, or a path (the route along
\* the first column then the last row, or the two endpoints alone) with a
\* cost (the expected one, or one more).
RECURSIVE Segment(_, _, _)
Segment(from, to, fixed) ==
    IF from > to THEN <<>>
    ELSE <<IF fixed.col THEN <<from, fixed.at>> ELSE <<fixed.at, from>>>>
             \o Segment(from + 1, to, fixed)

CornerRoute(e) ==
    Segment(0, e[1], [col |-> TRUE, at |-> 0])
        \o Segment(1, e[2], [col |-> FALSE, at |-> e[1]])

OtherResults ==
    LET expected == IF hpc = "base" THEN 0 ELSE ocost
    IN  {no_path_result} \cup
        {[present |-> TRUE, path |-> p, cost |-> c] :
            p \in {CornerRoute(end), <<start, end>>},
            c \in {expected, expected + 1}}

\* self.algorithm(grid, start, end) for such an engine: call and return
OtherEngine ==
    /\ algorithm = "other"
    /\ EngineCalled
    /\ astatus' = "returned"
    /\ aresult' \in OtherResults
    /\ ecalls' = ecalls + 1
    /\ UNCHANGED <<grid, start, end, ostatus, queue, visited, ocost,
                   open_set, closed_set, vpath, vresult, algorithm, run,
                   first, hvars, history>>

\* ---------------------------------------------------------- is_valid_path
\* the loop body for index i (0-based): "fail" on a return False
RECURSIVE valid_from(_, _, _)
valid_from(g, path, i) ==
    IF i >= Len(path) - 1 THEN TRUE
    ELSE LET x1 == path[i + 1][1]
             y1 == path[i + 1][2]
             x2 == path[i + 2][1]
             y2 == path[i + 2][2]
         IN  IF Abs(x1 - x2) + Abs(y1 - y2) > 1 THEN FALSE
             ELSE IF GridAt(g, x2, y2) = Wall THEN FALSE
             ELSE valid_from(g, path, i + 1)

\* `if not path: return False`, then the loop
is_valid_path(g, path) == IF path = <<>> THEN FALSE ELSE valid_from(g, path, 0)

IsValidCall ==
    /\ vresult = "pending"
    /\ vresult' = IF is_valid_path(grid, vpath) THEN "True" ELSE "False"
    /\ UNCHANGED <<grid, start, end, ostatus, queue, visited, ocost,
                   astatus, open_set, closed_set, aresult, vpath,
                   algorithm, run, first, ecalls, hvars, history>>

\* is_valid_path(grid, path) called on the path the engine returned, as the
\* Validity Property does (line 178)
ValidateCall ==
    /\ hpc = "off"
    /\ astatus = "returned"
    /\ aresult.present
    /\ vresult = "unused"
    /\ vpath' = aresult.path
    /\ vresult' = "pending"
    /\ UNCHANGED <<grid, start, end, ostatus, queue, visited, ocost,
                   astatus, open_set, closed_set, aresult,
                   algorithm, run, first, ecalls, hvars, history>>

\* ------------------------------------------------------------ the inputs
Shapes == {rc \in (1..MaxRows) \X (1..MaxCols) : rc[1] * rc[2] <= MaxCells}

Grids(values) ==
    UNION {[0..(rc[1] - 1) -> [0..(rc[2] - 1) -> values]] : rc \in Shapes}

Cells(g) == (0..(Rows(g) - 1)) \X (0..(Cols(g) - 1))

\* the coordinates up to margin outside the grid on every side
ExtCells(g, margin) ==
    ((0 - margin)..(Rows(g) - 1 + margin))
        \X ((0 - margin)..(Cols(g) - 1 + margin))

\* no proof object and no caller: the functions are called directly
NoHarness ==
    /\ log = <<>>
    /\ hpc = "off"
    /\ num_tests = 0
    /\ trial = 0
    /\ base_ret = "none"
    /\ ind_ret = "none"
    /\ got = <<>>
    /\ sizes = {}
    /\ mpc = "off"
    /\ calls = 0
    /\ stdout = <<>>
    /\ done_logs = <<>>
    /\ ocalls = 0
    /\ ecalls = 0
    /\ evaluated = <<>>
    /\ log0 = 0
    /\ base_passed = FALSE
    /\ bad = {}

\* the state at the call of find_optimal_cost(g, s, e), the engine (one of
\* algs) not yet called
SearchInitFor(gs, margin, algs) ==
    /\ grid \in gs
    /\ start \in ExtCells(grid, margin)
    /\ end \in ExtCells(grid, margin)
    /\ ostatus = "running"
    /\ queue = OracleQueue0(start)
    /\ visited = OracleVisited0(start)
    /\ ocost = 0
    /\ astatus = "idle"
    /\ open_set = <<>>
    /\ closed_set = {}
    /\ aresult = NoResult
    /\ vpath = <<>>
    /\ vresult = "unused"
    /\ algorithm \in algs
    /\ run = 1
    /\ first = NoResult
    /\ NoHarness
    /\ history = <<>>

\* the same, the engine being astar_correct
SearchInit(gs, margin) == SearchInitFor(gs, margin, {"astar_correct"})

\* every sequence of at most MaxPathLen cells of g
Paths(g) == UNION {[1..n -> Cells(g)] : n \in 0..MaxPathLen}

\* grids of non-negative costs 0 and 1 with impassable cells
Init == SearchInit(Grids({Wall, 0, 1}), 0)

\* grids whose passable cells cost 1 or MaxCost
InitPos == SearchInit(Grids({Wall, 1, MaxCost}), 0)

\* obstacle-free grids of costs 0, 1 and MaxCost
InitOpen == SearchInit(Grids({0, 1, MaxCost}), 0)

\* start and end drawn from inside and outside the grid
InitOob == SearchInit(Grids({Wall, 1}), OobMargin)

\* obstacle-free grids whose cells all cost 1, up to UnitSide x UnitSide
UnitGrids ==
    {[x \in 0..(rc[1] - 1) |-> [y \in 0..(rc[2] - 1) |-> 1]] :
        rc \in (1..UnitSide) \X (1..UnitSide)}

InitUnit == SearchInit(UnitGrids, 0)

\* either engine on grids whose passable cells cost 1 or MaxCost
InitEngines ==
    SearchInitFor(Grids({Wall, 1, MaxCost}), 0,
                  {"astar_correct", "astar_buggy"})

\* grids of at most LiveCells cells, costs 0 and 1 and impassable cells
InitLive ==
    SearchInit({g \in Grids({Wall, 0, 1}) :
                   Cardinality(Cells(g)) <= LiveCells}, 0)

\* find_optimal_cost and astar_correct called again with the same start and
\* end on a second grid: the first one with the cost of one passable cell
\* raised by d. What the first calls returned is kept in `first`.
RaiseCell ==
    /\ algorithm = "astar_correct"
    /\ hpc = "off"
    /\ run = 1
    /\ ostatus = "returned"
    /\ ocost < Inf
    /\ astatus = "returned"
    /\ \E c \in Cells(grid), d \in 0..MaxRaise :
          /\ grid[c[1]][c[2]] # Wall
          /\ grid' = [grid EXCEPT ![c[1]][c[2]] = @ + d]
          /\ first' = [present |-> aresult.present, path |-> aresult.path,
                       cost |-> aresult.cost, ocost |-> ocost, d |-> d]
    /\ run' = 3
    /\ ostatus' = "running"
    /\ queue' = OracleQueue0(start)
    /\ visited' = OracleVisited0(start)
    /\ ocost' = 0
    /\ astatus' = "idle"
    /\ aresult' = NoResult
    /\ open_set' = <<>>
    /\ closed_set' = {}
    /\ history' = <<>>
    /\ UNCHANGED <<start, end, vpath, vresult, algorithm, ecalls, hvars>>

\* grids whose passable cells all cost 1
InitRaise == SearchInit(Grids({Wall, 1}), 0)

\* the state at a call of is_valid_path(g, path)
InitValid ==
    /\ grid \in Grids({Wall, 1})
    /\ vpath \in Paths(grid)
    /\ vresult = "pending"
    /\ start = <<0, 0>>
    /\ end = <<0, 0>>
    /\ ostatus = "idle"
    /\ queue = <<>>
    /\ visited = OracleVisited0(start)
    /\ ocost = 0
    /\ astatus = "idle"
    /\ open_set = <<>>
    /\ closed_set = {}
    /\ aresult = NoResult
    /\ algorithm = "astar_correct"
    /\ run = 1
    /\ first = NoResult
    /\ NoHarness
    /\ history = <<>>

\* ------------------------------------------------------------------ Proof
\* a message and the values formatted into it
Msg(text, args) == [text |-> text, args |-> args]

\* a slip: the line put in front of the log
log_step_prepends(lg, message, status) ==
    <<[status |-> status, text |-> message.text, args |-> message.args]>> \o lg

\* self.log.append(f"[{status}] {message}"): the line keeps its tag in
\* front of the message
log_step(lg, message, status) ==
    Append(lg, [status |-> status, text |-> message.text,
                args |-> message.args])

\* sep.join(lines): the lines in order with sep between two of them
RECURSIVE join(_, _)
join(sep, lines) ==
    IF lines = <<>> THEN <<>>
    ELSE IF Len(lines) = 1 THEN <<lines[1]>>
    ELSE <<lines[1], sep>> \o join(sep, Tail(lines))

\* return "\n".join(self.log)
get_log(lg) == join("\n", lg)

\* ------------------------------------------------------------- AStarProof
\* a slip: Validity registered before Optimality
properties_validity_first == <<"Validity Property", "Optimality Property">>

\* super().__init__(algorithm_to_prove, [is_optimal_prop, is_valid_prop])
properties == <<"Optimality Property", "Validity Property">>

\* prop.check(test_data, result_data) with the two check_function lambdas
check(name, input_grid, optimal_cost, output) ==
    IF name = "Optimality Property"
    THEN output.cost = optimal_cost
    ELSE is_valid_path(input_grid, output.path)

\* for prop in self.properties: the checks made, up to and including the
\* first that returns false
RECURSIVE run_checks(_, _, _, _, _)
run_checks(props, i, input_grid, optimal_cost, output) ==
    IF i > Len(props) THEN <<>>
    ELSE IF check(props[i], input_grid, optimal_cost, output)
         THEN <<[name |-> props[i], value |-> TRUE]>>
                \o run_checks(props, i + 1, input_grid, optimal_cost, output)
         ELSE <<[name |-> props[i], value |-> FALSE]>>

\* path != [(0, 0)] or cost != 0 (a None path differs from the list)
base_case_fails(output) ==
    \/ ~output.present
    \/ output.path # << <<0, 0>> >>
    \/ output.cost # 0

\* a slip: one iteration too many
loop_continues_once_more(i, n) == i < n + 1

\* for i in range(num_tests)
loop_continues(i, n) == i < n

\* a slip: a failed trial does not end the run
trial_halts_never(failed) == FALSE

\* return False inside the loop, lines 217 and 225
trial_halts(failed) == failed

\* random.randint(5, 15), scaled down: the smallest side generated
MinSide == 2

\* random.randint(1, 10), scaled down: the costs generated
TrialCosts == {1, MaxCost}

\* [[random.randint(1, 10) for _ in range(grid_size)] for _ in range(grid_size)]
TrialGrids(grid_size) ==
    [0..(grid_size - 1) -> [0..(grid_size - 1) -> TrialCosts]]

\* the variables the methods of the proof leave alone
callervars == <<vpath, vresult, algorithm, run, first, sizes,
                mpc, calls, stdout, done_logs>>

\* run_base_case up to its call of the engine, lines 183-186
run_base_case_enter ==
    /\ hpc = "idle"
    /\ log' = log_step(log, Msg("--- Proving Base Case: Start == End ---",
                                <<>>), "INFO")
    /\ grid' = [x \in 0..1 |-> [y \in 0..1 |-> 1]]
    /\ start' = <<0, 0>>
    /\ end' = <<0, 0>>
    /\ hpc' = "base"
    /\ base_ret' = "none"
    /\ astatus' = "idle"
    /\ aresult' = NoResult
    /\ open_set' = <<>>
    /\ closed_set' = {}
    /\ ostatus' = "idle"
    /\ queue' = <<>>
    /\ visited' = OracleVisited0(<<0, 0>>)
    /\ ocost' = 0
    /\ history' = <<>>
    /\ UNCHANGED <<num_tests, trial, ind_ret, got, ocalls, ecalls, evaluated,
                   log0, base_passed, bad>>

\* run_base_case after the engine returned, lines 187-191 (the check mark
\* that ends the SUCCESS messages and the verdict lines is left out of the
\* texts)
BaseCheck ==
    /\ hpc = "base"
    /\ astatus = "returned"
    /\ IF base_case_fails(aresult)
       THEN /\ log' = log_step(log, Msg("Base case failed: start == end.",
                                        <<>>), "FAIL")
            /\ base_ret' = "False"
            /\ UNCHANGED base_passed
       ELSE /\ log' = log_step(log, Msg("Base case holds.", <<>>), "SUCCESS")
            /\ base_ret' = "True"
            /\ base_passed' = TRUE
    /\ hpc' = "idle"
    /\ UNCHANGED <<grid, start, end, ostatus, queue, visited, ocost, astatus,
                   open_set, closed_set, aresult, num_tests, trial, ind_ret,
                   got, ocalls, ecalls, evaluated, log0, bad, history, callervars>>

\* run_inductive_step(n) up to its loop, lines 194-196
run_inductive_step_enter(n) ==
    /\ hpc = "idle"
    /\ log' = log_step(log_step(log_step(log,
                  Msg("--- Proving Inductive Step ---", <<>>), "INFO"),
                  Msg("Hypothesis: Assume A* is correct for simple grids.",
                      <<>>), "INFO"),
                  Msg("Verifying for {num_tests} random grids...", <<n>>),
                  "INFO")
    /\ num_tests' = n
    /\ trial' = 0
    /\ hpc' = "loop"
    /\ ind_ret' = "none"
    /\ ocalls' = 0
    /\ ecalls' = 0
    /\ evaluated' = <<>>
    /\ log0' = Len(log)
    /\ bad' = {}
    /\ UNCHANGED <<grid, start, end, ostatus, queue, visited, ocost, astatus,
                   open_set, closed_set, aresult, base_ret, got, base_passed,
                   history>>

\* the head of `for i in range(num_tests)`: the next trial's grid is
\* generated and the oracle called (lines 198-206), or the loop is over
\* (lines 227-228)
LoopHead ==
    /\ hpc = "loop"
    /\ IF loop_continues(trial, num_tests)
       THEN /\ \E grid_size \in sizes :
                 /\ grid' \in TrialGrids(grid_size)
                 /\ start' = <<0, 0>>
                 /\ end' = <<grid_size - 1, grid_size - 1>>
            /\ ostatus' = "running"
            /\ queue' = OracleQueue0(<<0, 0>>)
            /\ visited' = OracleVisited0(<<0, 0>>)
            /\ ocost' = 0
            /\ astatus' = "idle"
            /\ aresult' = NoResult
            /\ open_set' = <<>>
            /\ closed_set' = {}
            /\ history' = <<>>
            /\ hpc' = "trial"
            /\ ocalls' = ocalls + 1
            /\ UNCHANGED <<log, ind_ret>>
       ELSE /\ log' = log_step(log,
                   Msg("All {num_tests} property checks passed. Inductive step holds.",
                       <<num_tests>>), "SUCCESS")
            /\ ind_ret' = "True"
            /\ hpc' = "idle"
            /\ UNCHANGED <<grid, start, end, ostatus, queue, visited, ocost,
                           astatus, aresult, open_set, closed_set, ocalls,
                           history>>
    /\ UNCHANGED <<num_tests, trial, base_ret, got, ecalls, evaluated, log0,
                   base_passed, bad, callervars>>

\* the lines logged for a property that returned false, lines 221-224
failure_lines(lg, i, name, g, s, e, optimal_cost, astar_cost) ==
    log_step(log_step(log_step(log_step(lg,
        Msg("Test {i+1} failed for {prop.name}.", <<i + 1, name>>), "FAIL"),
        Msg("Grid: {grid}", <<g>>), "INFO"),
        Msg("Start: {start}, End: {end}", <<s, e>>), "INFO"),
        Msg("Optimal Cost: {optimal_cost}, A* Cost: {astar_cost}",
            <<optimal_cost, astar_cost>>), "INFO")

\* one trial after oracle and engine returned, lines 212-225
TrialCheck ==
    /\ hpc = "trial"
    /\ ostatus = "returned"
    /\ astatus = "returned"
    /\ LET checks == IF aresult.present
                     THEN run_checks(properties, 1, grid, ocost, aresult)
                     ELSE <<>>
           failed == \/ ~aresult.present
                     \/ checks # <<>> /\ ~checks[Len(checks)].value
       IN  /\ evaluated' = checks
           /\ log' = IF ~aresult.present
                     THEN log_step(log,
                              Msg("Test {i+1} failed: No path found.",
                                  <<trial + 1>>), "FAIL")
                     ELSE IF failed
                     THEN failure_lines(log, trial, checks[Len(checks)].name,
                                        grid, start, end, ocost, aresult.cost)
                     ELSE log
           /\ IF trial_halts(failed)
              THEN /\ ind_ret' = "False"
                   /\ hpc' = "idle"
                   /\ UNCHANGED trial
              ELSE /\ trial' = trial + 1
                   /\ hpc' = "loop"
                   /\ UNCHANGED ind_ret
    /\ bad' = IF \/ ~aresult.present
                 \/ aresult.cost # ocost
                 \/ ~is_valid_path(grid, aresult.path)
              THEN bad \cup {trial} ELSE bad
    /\ UNCHANGED <<grid, start, end, ostatus, queue, visited, ocost, astatus,
                   open_set, closed_set, aresult, num_tests, base_ret, got,
                   ocalls, ecalls, log0, base_passed, history,
                   callervars>>

\* ---------------------------------------------- a caller of one AStarProof
\* the caller may call: any method, in any order, up to MaxCalls times
\* ("api"), or run_inductive_step once ("once")
MayCall(kind) ==
    \/ mpc = "api" /\ calls < MaxCalls
    \/ mpc = "once" /\ calls = 0 /\ kind = "run_inductive_step"

\* proof.run_base_case()
CallBase ==
    /\ MayCall("run_base_case")
    /\ run_base_case_enter
    /\ calls' = calls + 1
    /\ UNCHANGED <<vpath, vresult, algorithm, run, first, sizes, mpc, stdout,
                   done_logs>>

\* proof.run_inductive_step(n)
CallInductive ==
    /\ MayCall("run_inductive_step")
    /\ \E n \in 0..MaxTests : run_inductive_step_enter(n)
    /\ calls' = calls + 1
    /\ UNCHANGED <<vpath, vresult, algorithm, run, first, sizes, mpc, stdout,
                   done_logs>>

\* proof.get_log()
CallGetLog ==
    /\ MayCall("get_log")
    /\ hpc = "idle"
    /\ got' = get_log(log)
    /\ calls' = calls + 1
    /\ UNCHANGED <<grid, start, end, ostatus, queue, visited, ocost, astatus,
                   open_set, closed_set, aresult, vpath, vresult, algorithm,
                   run, first, log, hpc, num_tests, trial, base_ret, ind_ret,
                   sizes, mpc, stdout, done_logs, ocalls, ecalls, evaluated,
                   log0, base_passed, bad, history>>

\* -------------------------------------------------------------- __main__
\* print(s): one entry of standard output, a text or the lines of a log
print(out, text, lines) == Append(out, [text |-> text, lines |-> lines])

\* lines 237 and 243
verdict_passed(engine) ==
    IF engine = "astar_correct"
    THEN "\nCorrect A* verified."
    ELSE "\nBuggy A* verified."

\* line 246
verdict_failed == "\nBuggy A* failed proof. Correctly detected the issue."

\* a slip: no else branch for either engine
prints_on_failure_never(engine) == FALSE

\* the else branch of lines 244-246 exists for proof_buggy alone
prints_on_failure(engine) == engine = "astar_buggy"

\* proof.run_base_case(), the left operand of `and` (lines 235 and 241)
MainBase ==
    /\ mpc = "base"
    /\ run_base_case_enter
    /\ mpc' = "after_base"
    /\ UNCHANGED <<vpath, vresult, algorithm, run, first, sizes, calls,
                   stdout, done_logs>>

\* the right operand of `and`: run_inductive_step() is called when
\* run_base_case() returned True, and skipped otherwise
MainInductive ==
    /\ mpc = "after_base"
    /\ hpc = "idle"
    /\ IF base_ret = "True"
       THEN /\ run_inductive_step_enter(DefaultTests)
            /\ mpc' = "after_ind"
       ELSE /\ mpc' = "skipped"
            /\ UNCHANGED <<grid, start, end, ostatus, queue, visited, ocost,
                           astatus, open_set, closed_set, aresult, log, hpc,
                           num_tests, trial, base_ret, ind_ret, got, ocalls,
                           ecalls, evaluated, log0, base_passed, bad,
                           history>>
    /\ UNCHANGED <<vpath, vresult, algorithm, run, first, sizes, calls,
                   stdout, done_logs>>

\* the body of the `if` or of its else branch (lines 236-237, 242-246);
\* after proof_correct the header of the second proof is printed and
\* AStarProof(astar_buggy) constructed (lines 239-240)
MainVerdict ==
    /\ mpc \in {"after_ind", "skipped"}
    /\ hpc = "idle"
    /\ LET passed == base_ret = "True" /\ ind_ret = "True"
           shows == passed \/ prints_on_failure(algorithm)
           shown == IF shows
                    THEN print(print(stdout, "", get_log(log)),
                               IF passed THEN verdict_passed(algorithm)
                               ELSE verdict_failed, <<>>)
                    ELSE stdout
       IN  /\ got' = IF shows THEN get_log(log) ELSE got
           /\ done_logs' = Append(done_logs,
                               [engine |-> algorithm, lines |-> log,
                                passed |-> passed, at |-> Len(stdout)])
           /\ IF algorithm = "astar_correct"
              THEN /\ stdout' = print(shown,
                                     "\n\n= Running Proof on Buggy A* =", <<>>)
                   /\ algorithm' = "astar_buggy"
                   /\ log' = <<>>
                   /\ base_ret' = "none"
                   /\ ind_ret' = "none"
                   /\ base_passed' = FALSE
                   /\ mpc' = "base"
              ELSE /\ stdout' = shown
                   /\ mpc' = "done"
                   /\ UNCHANGED <<algorithm, log, base_ret, ind_ret,
                                  base_passed>>
    /\ UNCHANGED <<grid, start, end, ostatus, queue, visited, ocost, astatus,
                   open_set, closed_set, aresult, vpath, vresult, run, first,
                   hpc, num_tests, trial, sizes, calls, ocalls, ecalls,
                   evaluated, log0, bad, history>>

\* one AStarProof(algorithm) just constructed, none of its methods called
ProofInit(algs, ss, driver, out) ==
    /\ algorithm \in algs
    /\ sizes = ss
    /\ mpc = driver
    /\ stdout = out
    /\ log = <<>>
    /\ hpc = "idle"
    /\ num_tests = 0
    /\ trial = 0
    /\ base_ret = "none"
    /\ ind_ret = "none"
    /\ got = <<>>
    /\ calls = 0
    /\ done_logs = <<>>
    /\ ocalls = 0
    /\ ecalls = 0
    /\ evaluated = <<>>
    /\ log0 = 0
    /\ base_passed = FALSE
    /\ bad = {}
    /\ grid = [x \in 0..1 |-> [y \in 0..1 |-> 1]]
    /\ start = <<0, 0>>
    /\ end = <<0, 0>>
    /\ ostatus = "idle"
    /\ queue = <<>>
    /\ visited = OracleVisited0(<<0, 0>>)
    /\ ocost = 0
    /\ astatus = "idle"
    /\ open_set = <<>>
    /\ closed_set = {}
    /\ aresult = NoResult
    /\ vpath = <<>>
    /\ vresult = "unused"
    /\ run = 1
    /\ first = NoResult
    /\ history = <<>>

\* a proof of either engine, its methods called in any order
InitApi == ProofInit({"astar_correct", "astar_buggy"}, {MinSide}, "api", <<>>)

\* a proof of any engine, run_inductive_step called on it
InitRun ==
    ProofInit({"astar_correct", "astar_buggy", "other"}, MinSide..MaxSide,
              "once", <<>>)

\* the script after lines 233-234
InitMain ==
    ProofInit({"astar_correct"}, MinSide..MaxSide, "base",
              print(<<>>, "= Running Proof on Correct A* =", <<>>))

Next == OracleStep \/ AstarInit \/ AstarStep

NextValid == IsValidCall

NextTwice == OracleStep \/ AstarInit \/ AstarStep \/ AstarAgain

Spec == Init /\ [][Next]_vars

SpecPos == InitPos /\ [][Next]_vars

SpecOpen == InitOpen /\ [][Next]_vars

SpecOob == InitOob /\ [][Next]_vars

SpecValid == InitValid /\ [][NextValid]_vars

SpecTwice == InitPos /\ [][NextTwice]_vars

SpecUnit == InitUnit /\ [][Next]_vars

NextApi ==
    \/ OracleStep \/ AstarInit \/ AstarStep \/ BuggyInit \/ BuggyStep
    \/ CallBase \/ CallInductive \/ CallGetLog
    \/ BaseCheck \/ LoopHead \/ TrialCheck

NextRun ==
    \/ OracleStep \/ AstarInit \/ AstarStep \/ BuggyInit \/ BuggyStep
    \/ OtherEngine \/ CallInductive \/ LoopHead \/ TrialCheck

NextMain ==
    \/ OracleStep \/ AstarInit \/ AstarStep \/ BuggyInit \/ BuggyStep
    \/ MainBase \/ MainInductive \/ MainVerdict
    \/ BaseCheck \/ LoopHead \/ TrialCheck

NextEngines ==
    \/ OracleStep \/ AstarInit \/ AstarStep \/ BuggyInit \/ BuggyStep
    \/ ValidateCall \/ IsValidCall

SpecEngines == InitEngines /\ [][NextEngines]_vars

\* a search that can take a step takes it: the interpreter keeps running
\* the loop it is in
SpecLive == InitLive /\ [][Next]_vars /\ WF_vars(Next)

NextRaise == OracleStep \/ AstarInit \/ AstarStep \/ RaiseCell

SpecRaise == InitRaise /\ [][NextRaise]_vars

SpecApi == InitApi /\ [][NextApi]_vars

SpecRun == InitRun /\ [][NextRun]_vars

SpecMain == InitMain /\ [][NextMain]_vars

\* ------------------------------------------------- reference definitions
\* (independent of the searches: what the claims compare the results with)
Passable(g, c) == InBounds(g, c[1], c[2]) /\ g[c[1]][c[2]] # Wall

Adjacent(c, d) == Abs(c[1] - d[1]) + Abs(c[2] - d[2]) = 1

SetMin(S) == CHOOSE m \in S : \A x \in S : m <= x

SetMax(S) == CHOOSE m \in S : \A x \in S : x <= m

\* cells joined to s by a 4-directional route whose cells after s are passable
RECURSIVE Grow(_, _, _)
Grow(g, S, k) ==
    IF k = 0 THEN S
    ELSE Grow(g, S \cup {c \in Cells(g) :
                           Passable(g, c) /\ \E d \in S : Adjacent(c, d)},
              k - 1)

RouteExists(g, s, e) == e \in Grow(g, {s}, Cardinality(Cells(g)))

\* Bellman-Ford over a set D of <<cell, distance>> pairs: k rounds of
\* relaxing every passable cell from its neighbours
DistOf(D, c) == (CHOOSE p \in D : p[1] = c)[2]

RECURSIVE Relax(_, _, _)
Relax(g, D, k) ==
    IF k = 0 THEN D
    ELSE Relax(g,
               {<<c, IF ~Passable(g, c) THEN DistOf(D, c)
                     ELSE SetMin({DistOf(D, c)} \cup
                                 {p[2] + g[c[1]][c[2]] :
                                    p \in {q \in D : Adjacent(c, q[1])
                                                      /\ q[2] < Inf}})>> :
                  c \in Cells(g)},
               k - 1)

\* the least sum of entry costs over the routes from s to e, Inf without one
MinCost(g, s, e) ==
    DistOf(Relax(g, {<<c, IF c = s THEN 0 ELSE Inf>> : c \in Cells(g)},
                 Cardinality(Cells(g))), e)

PositiveGrid(g) == \A c \in Cells(g) : g[c[1]][c[2]] = Wall \/ g[c[1]][c[2]] >= 1

HasZero(g) == \E c \in Cells(g) : g[c[1]][c[2]] = 0

HasWall(g) == \E c \in Cells(g) : g[c[1]][c[2]] = Wall

\* ------------------------------------------------------------ the claims

\* C1: on a grid whose passable cells all cost at least 1, for passable
\* in-bounds start and end joined by a route, the cost astar_correct returns
\* equals the cost find_optimal_cost returns.
C1_EngineCostIsOracleCost ==
    (/\ astatus = "returned"
     /\ PositiveGrid(grid)
     /\ Passable(grid, start) /\ Passable(grid, end)
     /\ RouteExists(grid, start, end))
        => aresult.cost = ocost

\* C1 witness: the engine returned the oracle's cost along a route longer
\* than the Manhattan distance (the straight routes were costlier or walled).
C1_Witness ==
    /\ astatus = "returned"
    /\ PositiveGrid(grid)
    /\ Passable(grid, start) /\ Passable(grid, end)
    /\ RouteExists(grid, start, end)
    /\ aresult.present
    /\ aresult.cost = ocost
    /\ Len(aresult.path) > heuristic(start[1], start[2], end) + 1

\* C2 as stated: on every grid of non-negative costs, cells of cost 0
\* included, and every reachable in-bounds pair, the engine's cost equals the
\* oracle's cost.
C2_Original ==
    (/\ astatus = "returned"
     /\ RouteExists(grid, start, end))
        => aresult.cost = ocost

\* C2 amended: on every grid of non-negative costs and every reachable
\* in-bounds pair the engine's cost is never below the oracle's cost, and the
\* two are equal when every passable cell costs at least 1.
C2_Amended ==
    (/\ astatus = "returned"
     /\ RouteExists(grid, start, end))
        => /\ aresult.cost >= ocost
           /\ PositiveGrid(grid) => aresult.cost = ocost

\* C2 witness: on a grid with a cell of cost 0 the engine returned a path
\* whose cost is strictly above the oracle's.
C2_Witness ==
    /\ astatus = "returned"
    /\ HasZero(grid)
    /\ RouteExists(grid, start, end)
    /\ aresult.present
    /\ aresult.cost > ocost

\* C3: for passable in-bounds start and end, find_optimal_cost returns the
\* minimum over all 4-directional routes of passable cells of the sum of the
\* entry costs of the cells after the start (0 when start = end): finite and
\* non-negative when a route exists, infinity when none does.
C3_OracleIsMinimum ==
    (/\ ostatus = "returned" /\ astatus = "idle"
     /\ Passable(grid, start) /\ Passable(grid, end))
        => /\ ocost = MinCost(grid, start, end)
           /\ start = end => ocost = 0
           /\ RouteExists(grid, start, end) => (0 <= ocost /\ ocost < Inf)
           /\ ~RouteExists(grid, start, end) => ocost = Inf

\* C3 witness: the oracle returned the minimum on a grid with a wall where
\* cells of cost 0 make it cheaper than the number of steps.
C3_Witness ==
    /\ ostatus = "returned" /\ astatus = "idle"
    /\ Passable(grid, start) /\ Passable(grid, end)
    /\ HasWall(grid)
    /\ start # end
    /\ ocost = MinCost(grid, start, end)
    /\ 0 < ocost
    /\ ocost < heuristic(start[1], start[2], end)

\* C4: whenever find_optimal_cost returns a finite cost for in-bounds start
\* and end, astar_correct returns a present path.
C4_Complete ==
    (astatus = "returned" /\ ocost < Inf) => aresult.present

\* C4 witness: the oracle's cost is finite and the engine returned a path
\* that goes around a wall.
C4_Witness ==
    /\ astatus = "returned"
    /\ ocost < Inf
    /\ aresult.present
    /\ HasWall(grid)
    /\ Len(aresult.path) > heuristic(start[1], start[2], end) + 1

\* C5: for passable in-bounds start and end that no route joins,
\* find_optimal_cost returns infinity, astar_correct returns (None, infinity),
\* and neither raises.
C5_UnreachableIsTagged ==
    (/\ ostatus = "returned" /\ astatus # "running"
     /\ Passable(grid, start) /\ Passable(grid, end)
     /\ ~RouteExists(grid, start, end))
        => /\ ocost = Inf
           /\ astatus \in {"idle", "returned"}
           /\ astatus = "returned" =>
                  (~aresult.present /\ aresult.cost = Inf)

\* C5 witness: both searches have returned on a pair that a wall separates.
C5_Witness ==
    /\ astatus = "returned"
    /\ ostatus = "returned"
    /\ Passable(grid, start) /\ Passable(grid, end)
    /\ ~RouteExists(grid, start, end)
    /\ ~aresult.present
    /\ ocost = Inf

\* C6: astar_correct(grid, s, s) returns exactly ([s], 0) for every
\* in-bounds s, whatever the costs of the cells, that of s included.
C6_BaseCase ==
    (start = end)
        => /\ astatus \in {"idle", "running", "returned"}
           /\ astatus = "returned" =>
                  aresult = [present |-> TRUE, path |-> <<start>>, cost |-> 0]

\* C6 witness: the engine returned ([s], 0) for a start whose own cell is
\* impassable or costs 1.
C6_Witness ==
    /\ astatus = "returned"
    /\ start = end
    /\ grid[start[1]][start[2]] # 0
    /\ aresult = [present |-> TRUE, path |-> <<start>>, cost |-> 0]

\* C7: in every present path astar_correct returns, consecutive coordinates
\* are at Manhattan distance exactly 1 and every coordinate, the start
\* included, is an in-bounds passable cell.
C7_PathIsValid ==
    (astatus = "returned" /\ aresult.present)
        => /\ \A i \in 1..(Len(aresult.path) - 1) :
                  Adjacent(aresult.path[i], aresult.path[i + 1])
           /\ \A i \in 1..Len(aresult.path) :
                  Passable(grid, aresult.path[i])

\* C8: is_valid_path returns false for every path that is empty or has a
\* consecutive pair whose Manhattan distance is not exactly 1 (0 as well as
\* 2 or more).
C8_RejectsNonSteps ==
    (/\ vresult \in {"True", "False"}
     /\ \/ vpath = <<>>
        \/ \E i \in 1..(Len(vpath) - 1) : ~Adjacent(vpath[i], vpath[i + 1]))
        => vresult = "False"

\* C9: is_valid_path returns false for every path with a coordinate that
\* names an impassable cell, at whichever position (the first included).
C9_RejectsImpassable ==
    (/\ vresult \in {"True", "False"}
     /\ \E i \in 1..Len(vpath) : grid[vpath[i][1]][vpath[i][2]] = Wall)
        => vresult = "False"

\* C10: every call of astar_correct or find_optimal_cost whose start or end
\* lies outside the grid bounds ends in an error; none returns.
C10_OutOfBoundsRaises ==
    (\/ ~InBounds(grid, start[1], start[2])
     \/ ~InBounds(grid, end[1], end[2]))
        => (ostatus # "returned" /\ astatus # "returned")

C12_UnitGridCostIsManhattan ==
    (/\ astatus = "returned"
     /\ \A c \in Cells(grid) : grid[c[1]][c[2]] = 1)
        => /\ aresult.present
           /\ aresult.cost = Abs(start[1] - end[1]) + Abs(start[2] - end[2])

\* C12 witness: the 5x5 scenario, cost 8 from (0,0) to (4,4).
C12_Witness ==
    /\ astatus = "returned"
    /\ Rows(grid) = 5 /\ Cols(grid) = 5
    /\ \A c \in Cells(grid) : grid[c[1]][c[2]] = 1
    /\ start = <<0, 0>> /\ end = <<4, 4>>
    /\ aresult.cost = 8


\* C13: on one AStarProof, in every sequence of calls, no trial of
\* run_inductive_step is executed unless run_base_case was called earlier on
\* that proof and returned true.
C13_TrialOnlyAfterBaseCase == hpc = "trial" => base_passed

\* ------------------------------------------- what the claims read in a log
\* the lines appended since the current run_inductive_step was called
RunLines == {i \in 1..Len(log) : i > log0}

\* line a and line b are the same line
LineEq(a, b) == a.status = b.status /\ a.text = b.text /\ a.args = b.args

\* lines is lg joined: the lines of lg in order, separators between them
JoinedInOrder(lines, lg) ==
    /\ Len(lines) = IF lg = <<>> THEN 0 ELSE 2 * Len(lg) - 1
    /\ \A i \in 1..Len(lg) : LineEq(lines[2 * i - 1], lg[i])

\* the order of registration the specification gives
Registered == <<"Optimality Property", "Validity Property">>

\* C14: in run_inductive_step the first trial that fails (absent path or a
\* property false) ends the run: a FAIL line is appended, the call returns
\* false, no oracle or engine call is made for a later trial, and no SUCCESS
\* line or true result follows in that run.
C14_FirstFailureEndsRun ==
    bad # {} =>
        /\ hpc = "idle"
        /\ ind_ret = "False"
        /\ bad = {trial}
        /\ ocalls = trial + 1
        /\ ecalls = trial + 1
        /\ \E i \in RunLines : log[i].status = "FAIL"
        /\ \A i \in RunLines : log[i].status # "SUCCESS"

\* the second trial failed on a cost different from the oracle's, after a
\* first trial that passed
C14_Witness ==
    /\ bad # {}
    /\ trial = 1
    /\ ind_ret = "False"
    /\ aresult.present
    /\ aresult.cost # ocost
    /\ ocalls = 2

\* C15: run_inductive_step(num_tests) returns true and appends a SUCCESS
\* line if and only if each of the num_tests trials had a present path and
\* every property true; otherwise it returns false with no SUCCESS line.
C15_SuccessIffAllTrialsPass ==
    (hpc = "idle" /\ calls = 1) =>
        LET all_passed == /\ ocalls = num_tests
                          /\ ecalls = num_tests
                          /\ bad = {}
            success == \E i \in RunLines : log[i].status = "SUCCESS"
        IN  /\ ind_ret \in {"True", "False"}
            /\ (ind_ret = "True") <=> all_passed
            /\ (ind_ret = "True") <=> success
            /\ bad = {} => all_passed

\* two trials ran, both passed, and the SUCCESS line is the last one
C15_Witness ==
    /\ hpc = "idle"
    /\ calls = 1
    /\ ind_ret = "True"
    /\ num_tests = 2
    /\ ocalls = 2
    /\ algorithm = "astar_correct"
    /\ log[Len(log)].status = "SUCCESS"

\* C16: for every failing trial of run_inductive_step, a trial without a
\* path included, the lines appended for the failure contain the grid, the
\* start and end, the oracle cost and the reported cost, and name what
\* failed.
C16_FailureIsDiagnosed ==
    (hpc = "idle" /\ ind_ret = "False") =>
        /\ \E i \in RunLines : log[i].status = "FAIL"
        /\ \E i \in RunLines :
              log[i].text = "Grid: {grid}" /\ log[i].args = <<grid>>
        /\ \E i \in RunLines :
              /\ log[i].text = "Start: {start}, End: {end}"
              /\ log[i].args = <<start, end>>
        /\ \E i \in RunLines :
              /\ log[i].text
                   = "Optimal Cost: {optimal_cost}, A* Cost: {astar_cost}"
              /\ log[i].args = <<ocost, aresult.cost>>

\* C17: within one trial the properties are evaluated in registration order
\* (Optimality, then Validity), none is evaluated after the first that
\* returns false, and the FAIL line names that first failing property.
C17_PropertiesInOrder ==
    /\ Len(evaluated) <= Len(Registered)
    /\ \A k \in 1..Len(evaluated) :
          /\ evaluated[k].name = Registered[k]
          /\ k < Len(evaluated) => evaluated[k].value
    /\ (hpc = "loop" /\ ocalls >= 1) =>
          /\ Len(evaluated) = Len(Registered)
          /\ \A k \in 1..Len(evaluated) : evaluated[k].value
    /\ (evaluated # <<>> /\ ~evaluated[Len(evaluated)].value) =>
          /\ hpc = "idle"
          /\ ind_ret = "False"
          /\ {i \in RunLines : log[i].status = "FAIL"} = {Len(log) - 3}
          /\ log[Len(log) - 3].text = "Test {i+1} failed for {prop.name}."
          /\ log[Len(log) - 3].args
               = <<trial + 1, evaluated[Len(evaluated)].name>>

\* Optimality was evaluated and true, Validity evaluated next and false, and
\* the FAIL line names Validity
C17_Witness ==
    /\ Len(evaluated) = 2
    /\ evaluated[1].value
    /\ ~evaluated[2].value
    /\ ind_ret = "False"
    /\ aresult.cost = ocost
    /\ log[Len(log) - 3].status = "FAIL"
    /\ log[Len(log) - 3].args[2] = "Validity Property"

\* C18: run_inductive_step with num_tests >= 1 on astar_buggy returns false
\* with the Optimality Property named as failing, whatever grids are
\* generated.
C18_BuggyIsRejected ==
    (algorithm = "astar_buggy" /\ hpc = "idle" /\ calls = 1
        /\ num_tests >= 1) =>
        /\ ind_ret = "False"
        /\ \E i \in RunLines :
              /\ log[i].status = "FAIL"
              /\ log[i].text = "Test {i+1} failed for {prop.name}."
              /\ log[i].args[2] = "Optimality Property"

\* astar_buggy returned a path on a grid where that path is a cheapest one,
\* and the run was rejected
C18_Witness ==
    /\ algorithm = "astar_buggy"
    /\ hpc = "idle"
    /\ calls = 1
    /\ ind_ret = "False"
    /\ aresult.present
    /\ is_valid_path(grid, aresult.path)
    /\ \A c \in Cells(grid) : grid[c[1]][c[2]] = 1
    /\ evaluated = <<[name |-> "Optimality Property", value |-> FALSE]>>

\* C19: across any sequence of run_base_case, run_inductive_step and get_log
\* calls on one proof the log changes only by appending: a line keeps its
\* position and content, every line carries one of the tags INFO, SUCCESS,
\* FAIL, and get_log returns the lines in the order they were appended.
C19_LogIsAppendOnly ==
    [][/\ Len(log') >= Len(log)
       /\ \A i \in 1..Len(log) : LineEq(log'[i], log[i])
       /\ \A i \in 1..Len(log') :
             log'[i].status \in {"INFO", "SUCCESS", "FAIL"}
       /\ (hpc = "idle" /\ hpc' = "idle" /\ calls' = calls + 1) =>
             JoinedInOrder(got', log)]_vars

\* get_log was called after a run that logged a failure, and returned the
\* seven lines of the log
C19_Witness ==
    /\ calls = 2
    /\ hpc = "idle"
    /\ Len(log) = 7
    /\ Len(got) = 13
    /\ log[4].status = "FAIL"
    /\ got[7].status = "FAIL"
    /\ got[8] = "\n"

\* the verdict lines of the script for an engine and an outcome (it has
\* none for astar_correct failing)
Verdicts(engine, passed) ==
    IF engine = "astar_correct"
    THEN IF passed THEN {"\nCorrect A* verified."} ELSE {}
    ELSE IF passed THEN {"\nBuggy A* verified."}
         ELSE {"\nBuggy A* failed proof. Correctly detected the issue."}

\* C20: driven as a script, for each engine under test and each outcome of
\* its proof, that engine's log lines are printed in order, followed by a
\* verdict line for that engine.
C20_LogThenVerdict ==
    \A k \in 1..Len(done_logs) :
        LET d == done_logs[k]
        IN  /\ Len(stdout) >= d.at + 2
            /\ JoinedInOrder(stdout[d.at + 1].lines, d.lines)
            /\ stdout[d.at + 2].lines = <<>>
            /\ stdout[d.at + 2].text \in Verdicts(d.engine, d.passed)

\* both proofs are over: astar_correct passed, astar_buggy failed, and each
\* log was printed before its verdict
C20_Witness ==
    /\ mpc = "done"
    /\ Len(done_logs) = 2
    /\ done_logs[1].engine = "astar_correct"
    /\ done_logs[1].passed
    /\ done_logs[2].engine = "astar_buggy"
    /\ ~done_logs[2].passed
    /\ Len(done_logs[2].lines) = 9
    /\ Len(stdout) = 6

\* C21: astar_correct, astar_buggy, find_optimal_cost and is_valid_path
\* leave the grid they are given unchanged: no step of any of them changes
\* the value of a cell.
C21_GridUnchanged ==
    [][/\ DOMAIN grid' = DOMAIN grid
       /\ \A c \in Cells(grid) : grid'[c[1]][c[2]] = grid[c[1]][c[2]]]_vars

\* the oracle, an engine and the validator have all returned, the engine
\* after expanding at least two nodes
C21_Witness ==
    /\ ostatus = "returned"
    /\ astatus = "returned"
    /\ vresult = "True"
    /\ Len(vpath) >= 3
    /\ Cardinality(closed_set) >= 2
    /\ HasWall(grid)

\* C22: for every grid and in-bounds start and end for which astar_correct
\* returns a present path, the path begins at start, ends at end, and lists
\* the cells in travel order (each cell one step from the one before).
C22_PathFromStartToEnd ==
    (algorithm = "astar_correct" /\ astatus = "returned"
        /\ aresult.present) =>
        /\ aresult.path # <<>>
        /\ aresult.path[1] = start
        /\ aresult.path[Len(aresult.path)] = end
        /\ \A i \in 1..(Len(aresult.path) - 1) :
              Adjacent(aresult.path[i], aresult.path[i + 1])

\* a path of four cells on a grid with an impassable cell
C22_Witness ==
    /\ algorithm = "astar_correct"
    /\ astatus = "returned"
    /\ aresult.present
    /\ Len(aresult.path) = 4
    /\ aresult.path[1] = start
    /\ aresult.path[4] = end
    /\ \A i \in 1..3 : Adjacent(aresult.path[i], aresult.path[i + 1])
    /\ HasWall(grid)

\* the pops of the history, by position
Pops == {i \in 1..Len(history) : history[i].op = "pop"}

\* C23: in astar_correct on a grid whose passable cells all cost at least 1,
\* every node popped from the open set (each pop of a coordinate, not only
\* the first) has g equal to the minimum cost from start to its coordinate.
C23_PoppedGIsMinimum ==
    (algorithm = "astar_correct" /\ PositiveGrid(grid) /\ Pops # {}) =>
        LET last == history[SetMax(Pops)]
        IN  last.g = MinCost(grid, start, <<last.x, last.y>>)

\* the pushes of the history, by position
Pushes == {i \in 1..Len(history) : history[i].op = "push"}

\* C24: in astar_correct a neighbour is inserted into the open set only when
\* its tentative g is strictly lower than the best g recorded so far for its
\* coordinate: a coordinate inserted before with an equal or lower g is not
\* inserted again.
C24_InsertOnlyWhenBetter ==
    algorithm = "astar_correct" =>
        \A j \in Pushes : \A i \in Pushes :
            (i < j /\ history[i].x = history[j].x
                   /\ history[i].y = history[j].y)
                => history[j].g < history[i].g

\* C25: on every finite grid of non-negative costs and every in-bounds start
\* and end, find_optimal_cost and astar_correct terminate: each eventually
\* pops the goal and returns, or exhausts its queue and returns the
\* unreachable result.
C25_SearchesTerminate ==
    <>(/\ ostatus = "returned"
       /\ astatus = "returned"
       /\ (aresult.present \/ (open_set = <<>> /\ aresult = no_path_result))
       /\ (ocost < Inf \/ (queue = <<>> /\ ocost = Inf)))

\* both searches returned the unreachable result after the engine emptied
\* an open set it had filled
C25_Witness ==
    /\ ostatus = "returned"
    /\ astatus = "returned"
    /\ ~aresult.present
    /\ ocost = Inf
    /\ open_set = <<>>
    /\ Cardinality(Pops) >= 2
    /\ HasZero(grid)

\* C26: for two grids with passable costs at least 1 that differ in one
\* passable cell, whose cost is raised by d >= 0 in the second, and the same
\* reachable start and end, find_optimal_cost and astar_correct each return
\* on the second grid a cost at least their cost on the first and at most
\* that cost plus d, and they agree with each other on the second grid.
C26_CostFollowsRaise ==
    (run = 3 /\ ostatus = "returned" /\ astatus = "returned") =>
        /\ first.ocost <= ocost
        /\ ocost <= first.ocost + first.d
        /\ first.present
        /\ aresult.present
        /\ first.cost <= aresult.cost
        /\ aresult.cost <= first.cost + first.d
        /\ aresult.cost = ocost

\* a cell of the first route was raised by 2 and both searches returned the
\* cost of the first grid plus 2
C26_Witness ==
    /\ run = 3
    /\ ostatus = "returned"
    /\ astatus = "returned"
    /\ first.d = 2
    /\ aresult.present
    /\ aresult.cost = first.cost + 2
    /\ ocost = first.ocost + 2
    /\ \E c \in Cells(grid) : grid[c[1]][c[2]] = 3
    /\ Len(aresult.path) >= 3

\* the entry costs of the cells of path from position i on, summed
RECURSIVE PathSum(_, _, _)
PathSum(g, path, i) ==
    IF i > Len(path) THEN 0
    ELSE g[path[i][1]][path[i][2]] + PathSum(g, path, i + 1)

\* C27: for every present result (path, cost) of astar_correct, cost equals
\* the sum of the grid entry costs of the cells of the path after its first
\* cell, also when a coordinate was inserted into the open set more than
\* once.
C27_CostIsPathSum ==
    (algorithm = "astar_correct" /\ astatus = "returned"
        /\ aresult.present) =>
        aresult.cost = PathSum(grid, aresult.path, 2)

\* a path through a cell that was pushed twice, over cells of different
\* costs
C27_Witness ==
    /\ algorithm = "astar_correct"
    /\ astatus = "returned"
    /\ aresult.present
    /\ Len(aresult.path) >= 3
    /\ aresult.cost = PathSum(grid, aresult.path, 2)
    /\ aresult.cost > Len(aresult.path)
    /\ \E i \in Pushes : \E j \in Pushes :
          /\ i < j
          /\ history[i].x = history[j].x
          /\ history[i].y = history[j].y
          /\ history[i].g # history[j].g
          /\ \E k \in 2..Len(aresult.path) :
                aresult.path[k] = <<history[i].x, history[i].y>>

\* C28: every path returned by astar_correct or astar_buggy is simple: no
\* coordinate occurs twice in it.
C28_PathIsSimple ==
    (astatus = "returned" /\ aresult.present) =>
        \A i \in 1..Len(aresult.path) : \A j \in 1..Len(aresult.path) :
            i < j => aresult.path[i] # aresult.path[j]

\* astar_buggy returned a path of at least four cells after pushing some
\* coordinate twice
C28_Witness ==
    /\ algorithm = "astar_buggy"
    /\ astatus = "returned"
    /\ aresult.present
    /\ Len(aresult.path) >= 4
    /\ \E i \in Pushes : \E j \in Pushes :
          i < j /\ history[i].x = history[j].x /\ history[i].y = history[j].y
    /\ \A i \in 1..Len(aresult.path) : \A j \in 1..Len(aresult.path) :
          i < j => aresult.path[i] # aresult.path[j]

\* C29: in astar_correct on a grid whose passable cells all cost at least 1,
\* the f values of the popped nodes form a non-decreasing sequence over the
\* whole search.
C29_PoppedFNonDecreasing ==
    (algorithm = "astar_correct" /\ PositiveGrid(grid)) =>
        \A i \in Pops : \A j \in Pops :
            i < j => history[i].f <= history[j].f

\* a finished search that popped at least four nodes, two of them with the
\* same f and two later ones with strictly larger f each time
C29_Witness ==
    /\ algorithm = "astar_correct"
    /\ PositiveGrid(grid)
    /\ astatus = "returned"
    /\ aresult.present
    /\ Cardinality(Pops) >= 4
    /\ \E i \in Pops : \E j \in Pops : \E k \in Pops :
          /\ i < j /\ j < k
          /\ 0 < history[i].f
          /\ history[i].f < history[j].f
          /\ history[j].f < history[k].f
    /\ \E i \in Pops : \E j \in Pops :
          i < j /\ history[i].f = history[j].f

\* C30: astar_buggy never assigns g to a neighbour: for every grid and
\* in-bounds start and end with start different from end and end reachable, it
\* returns a present path together with an infinite cost, so its cost differs
\* from the cost find_optimal_cost returns.
C30_BuggyCostIsInfinite ==
    (/\ algorithm = "astar_buggy"
     /\ astatus = "returned"
     /\ ostatus = "returned"
     /\ InBounds(grid, start[1], start[2])
     /\ InBounds(grid, end[1], end[2])
     /\ start # end
     /\ RouteExists(grid, start, end)) =>
        /\ aresult.present
        /\ aresult.cost = Inf
        /\ ocost < Inf
        /\ aresult.cost # ocost

\* astar_buggy returned a cheapest route of at least four cells, on a grid
\* with a wall and a cell of cost MaxCost, together with the infinite cost
C30_Witness ==
    /\ algorithm = "astar_buggy"
    /\ astatus = "returned"
    /\ ostatus = "returned"
    /\ start # end
    /\ aresult.present
    /\ Len(aresult.path) >= 4
    /\ HasWall(grid)
    /\ \E c \in Cells(grid) : grid[c[1]][c[2]] = MaxCost
    /\ PathSum(grid, aresult.path, 2) = ocost
    /\ aresult.cost = Inf
====
